---------------------------- MODULE Spec2Model ----------------------------
(***************************************************************************)
(* A model of src/time.rs: strptime (the format-driven parser), strftime   *)
(* (the format-driven formatter) and the derived formatters of tm.         *)
(*                                                                         *)
(* Text is a sequence of one-character strings; positions are the          *)
(* zero-based byte offsets the source uses, so s[pos + 1] is the byte at   *)
(* offset pos.  Only one-byte (ASCII) characters are drawn.                *)
(***************************************************************************)
EXTENDS Integers, Sequences, FiniteSets, TLC

VARIABLES
    oob,      \* what a read of s[len] does in this build: "fail" or "nul"
    pc,       \* position of the caller: "format", "parse", "finish", ...
    t,        \* the tm handed to strftime (a one-element sequence, or <<>>)
    format,   \* the format string
    s,        \* the input string of strptime
    out,      \* result of strftime(format, t)
    outE,     \* result of strftime(expansion of format, t)
    rpos,     \* strptime: position of the format reader rdr
    pos,      \* strptime: the input cursor
    tm,       \* strptime: the working record
    result,   \* strptime: the local `result`
    res,      \* what strptime returned
    resE,     \* what strptime(s, expansion of format) returned
    back,     \* result of strftime(format, tm returned by strptime)
    shown,    \* result of ctime()
    r822,     \* result of t.rfc822()
    r822z,    \* result of t.rfc822z()
    r3339,    \* result of t.rfc3339()
    last      \* strptime: rpos, pos and tm before the latest iteration

vars == <<oob, pc, t, format, s, out, outE, rpos, pos, tm, result, res, resE,
          back, shown, r822, r822z, r3339, last>>

---------------------------------------------------------------------------
(* Characters and integers as text. *)

\* The characters of a string literal.
Chars(str) == [i \in 1..Len(str) |-> SubSeq(str, i, i)]

NUL == "NUL"     \* the byte that terminates a string's buffer
EOFCH == "EOF"   \* what rdr.read_char() yields at the end of the format

DIGITS == <<"0", "1", "2", "3", "4", "5", "6", "7", "8", "9">>

IsDigit(ch) == \E i \in 1..10 : DIGITS[i] = ch

DigitVal(ch) == (CHOOSE i \in 1..10 : DIGITS[i] = ch) - 1

Abs(n) == IF n < 0 THEN 0 - n ELSE n

\* Rust's / and % on signed integers truncate toward zero.
TruncDiv(a, b) == IF a >= 0 THEN a \div b ELSE 0 - ((0 - a) \div b)

TruncRem(a, b) == a - b * TruncDiv(a, b)

RECURSIVE NatStr(_)
NatStr(n) == IF n < 10 THEN <<DIGITS[n + 1]>>
             ELSE NatStr(n \div 10) \o <<DIGITS[(n % 10) + 1]>>

\* int::str
IntStr(n) == IF n < 0 THEN <<"-">> \o NatStr(0 - n) ELSE NatStr(n)

RECURSIVE Fill(_, _)
Fill(ch, n) == IF n <= 0 THEN <<>> ELSE <<ch>> \o Fill(ch, n - 1)

\* #fmt("%0<w>d", n): the sign first, then zeros up to the width.
FmtZero(w, n) ==
    LET d == NatStr(Abs(n))
        sign == IF n < 0 THEN <<"-">> ELSE <<>>
    IN  sign \o Fill("0", w - Len(sign) - Len(d)) \o d

\* #fmt("%<w>d", n): blanks on the left up to the width.
FmtSpace(w, n) == Fill(" ", w - Len(IntStr(n))) \o IntStr(n)

---------------------------------------------------------------------------
(* The tm record. *)

NullZone == <<>>            \* tm_zone == ptr::null()
Zone(name) == <<name>>      \* tm_zone pointing at the C string `name`

empty_tm ==
    [tm_sec |-> 0, tm_min |-> 0, tm_hour |-> 0, tm_mday |-> 0, tm_mon |-> 0,
     tm_year |-> 0, tm_wday |-> 0, tm_yday |-> 0, tm_isdst |-> 0,
     tm_gmtoff |-> 0, tm_zone |-> NullZone, tm_nsec |-> 0]

---------------------------------------------------------------------------
(* strptime: the matchers. *)

\* str::char_range_at(s, p) and s[p].  Offset len holds the terminator: the
\* read either trips the bounds check (the task fails) or yields the NUL.
char_range_at(str, p) ==
    IF p < Len(str) THEN [fail |-> FALSE, ch |-> str[p + 1], next |-> p + 1]
    ELSE IF p = Len(str) /\ oob = "nul"
         THEN [fail |-> FALSE, ch |-> NUL, next |-> p + 1]
         ELSE [fail |-> TRUE, ch |-> NUL, next |-> p]

RECURSIVE match_str_from(_, _, _, _)
match_str_from(str, i, needle, k) ==
    IF k > Len(needle) THEN "true"
    ELSE LET r == char_range_at(str, i)
         IN  IF r.fail THEN "fail"
             ELSE IF r.ch # needle[k] THEN "false"
             ELSE match_str_from(str, i + 1, needle, k + 1)

\* "true", "false", or "fail" when the comparison read past the buffer.
match_str(str, p, needle) == match_str_from(str, p, needle, 1)

RECURSIVE match_strs_from(_, _, _, _)
match_strs_from(str, p, strs, i) ==
    IF i > Len(strs) THEN [kind |-> "none", value |-> 0, pos |-> p]
    ELSE LET m == match_str(str, p, strs[i][1])
         IN  IF m = "fail" THEN [kind |-> "fail", value |-> 0, pos |-> p]
             ELSE IF m = "true"
                  THEN [kind |-> "some", value |-> strs[i][2],
                        pos |-> p + Len(strs[i][1])]
                  ELSE match_strs_from(str, p, strs, i + 1)

match_strs(str, p, strs) == match_strs_from(str, p, strs, 1)

RECURSIVE match_digits_from(_, _, _, _, _)
match_digits_from(str, p, left, ws, value) ==
    IF left = 0 THEN [kind |-> "some", value |-> value, pos |-> p]
    ELSE LET r == char_range_at(str, p)
         IN  IF r.fail THEN [kind |-> "fail", value |-> 0, pos |-> p]
             ELSE IF IsDigit(r.ch)
                  THEN match_digits_from(str, r.next, left - 1, ws,
                                         value * 10 + DigitVal(r.ch))
             ELSE IF r.ch = " " /\ ws
                  THEN match_digits_from(str, r.next, left - 1, ws, value)
             ELSE [kind |-> "none", value |-> 0, pos |-> p]

match_digits(str, p, digits, ws) == match_digits_from(str, p, digits, ws, 0)

---------------------------------------------------------------------------
(* strptime: parse_char and parse_type.  A result is                       *)
(* [kind, pos, tm, msg]: kind "ok" carries the next position, kind "err"   *)
(* the error text, kind "fail" stands for the task failing; tm is the      *)
(* working record as the call left it.                                     *)

Ok(p, r) == [kind |-> "ok", pos |-> p, tm |-> r, msg |-> <<>>]
Err(m, p, r) == [kind |-> "err", pos |-> p, tm |-> r, msg |-> m]
Fail(p, r) == [kind |-> "fail", pos |-> p, tm |-> r, msg |-> <<>>]

\* parse_char returning ok(pos) in place of ok(next).
parse_char_stay(str, p, c, r) ==
    LET x == char_range_at(str, p)
    IN  IF x.fail THEN Fail(p, r)
        ELSE IF c = x.ch THEN Ok(p, r)
        ELSE Err(<<"Expected", c, "found", x.ch>>, p, r)

parse_char(str, p, c, r) ==
    LET x == char_range_at(str, p)
    IN  IF x.fail THEN Fail(p, r)
        ELSE IF c = x.ch THEN Ok(x.next, r)
        ELSE Err(<<"Expected", c, "found", x.ch>>, p, r)

\* alt <option> { some(item) { ...; ok(pos) } none { err(msg) } }
Alt(m, p, r, stored, msg) ==
    IF m.kind = "some" THEN Ok(m.pos, stored)
    ELSE IF m.kind = "none" THEN Err(<<msg>>, p, r)
    ELSE Fail(p, r)

DayNames == << <<Chars("Sunday"), 0>>,
               <<Chars("Monday"), 1>>,
               <<Chars("Tuesday"), 2>>,
               <<Chars("Wednesday"), 3>>,
               <<Chars("Thursday"), 4>>,
               <<Chars("Friday"), 5>>,
               <<Chars("Saturday"), 6>> >>

DayAbbrs == << <<Chars("Sun"), 0>>, <<Chars("Mon"), 1>>,
               <<Chars("Tue"), 2>>, <<Chars("Wed"), 3>>,
               <<Chars("Thu"), 4>>, <<Chars("Fri"), 5>>,
               <<Chars("Sat"), 6>> >>

MonthNames == << <<Chars("January"), 0>>,
                 <<Chars("February"), 1>>,
                 <<Chars("March"), 2>>,
                 <<Chars("April"), 3>>,
                 <<Chars("May"), 4>>,
                 <<Chars("June"), 5>>,
                 <<Chars("July"), 6>>,
                 <<Chars("August"), 7>>,
                 <<Chars("September"), 8>>,
                 <<Chars("October"), 9>>,
                 <<Chars("November"), 10>>,
                 <<Chars("December"), 11>> >>

MonthAbbrs == << <<Chars("Jan"), 0>>, <<Chars("Feb"), 1>>,
                 <<Chars("Mar"), 2>>, <<Chars("Apr"), 3>>,
                 <<Chars("May"), 4>>, <<Chars("Jun"), 5>>,
                 <<Chars("Jul"), 6>>, <<Chars("Aug"), 7>>,
                 <<Chars("Sep"), 8>>, <<Chars("Oct"), 9>>,
                 <<Chars("Nov"), 10>>, <<Chars("Dec"), 11>> >>

AmPmLower == << <<Chars("am"), 0>>, <<Chars("pm"), 12>> >>

AmPmUpper == << <<Chars("AM"), 0>>, <<Chars("PM"), 12>> >>

\* The steps of a composite specifier of the parser: <<"t", ch>> is
\* parse_type(s, pos, ch, tm), <<"c", ch>> is parse_char(s, pos, ch).
strptime_composite(ch) ==
    CASE ch = "c" -> << <<"t","a">>, <<"c"," ">>, <<"t","b">>, <<"c"," ">>,
                        <<"t","e">>, <<"c"," ">>, <<"t","T">>, <<"c"," ">>,
                        <<"t","Y">> >>
      [] ch \in {"D", "x"} -> << <<"t","m">>, <<"c","/">>, <<"t","d">>,
                                 <<"c","/">>, <<"t","y">> >>
      [] ch = "F" -> << <<"t","Y">>, <<"c","-">>, <<"t","m">>, <<"c","-">>,
                        <<"t","d">> >>
      [] ch = "R" -> << <<"t","H">>, <<"c",":">>, <<"t","M">> >>
      [] ch = "r" -> << <<"t","I">>, <<"c",":">>, <<"t","M">>, <<"c",":">>,
                        <<"t","S">>, <<"c"," ">>, <<"t","p">> >>
      [] ch \in {"T", "X"} -> << <<"t","H">>, <<"c",":">>, <<"t","M">>,
                                 <<"c",":">>, <<"t","S">> >>
      [] ch = "v" -> << <<"t","e">>, <<"c","-">>, <<"t","b">>, <<"c","-">>,
                        <<"t","Y">> >>
      [] OTHER -> <<>>

\* %I and %l storing the value as read, 12 included.
hour_of_12_raw(v) == v

\* %I and %l: the hour stored for the value read.
hour_of_12(v) == IF v = 12 THEN 0 ELSE v

\* %Z on a token that is not UTC/GMT: the cursor after the while loop.
RECURSIVE skip_zone(_, _)
skip_zone(str, p) ==
    IF p < Len(str)
    THEN LET x == char_range_at(str, p)
         IN  IF x.ch = " " THEN x.next ELSE skip_zone(str, x.next)
    ELSE p

RECURSIVE strptime_parse_type(_, _, _, _)
RECURSIVE strptime_chain(_, _, _)

\* parse_type(..).chain {..}.chain {..}: the steps in order, from result r,
\* stopping at the first step that does not return ok.
strptime_chain(str, r, steps) ==
    IF steps = <<>> \/ r.kind # "ok" THEN r
    ELSE LET step == Head(steps)
             n == IF step[1] = "t"
                  THEN strptime_parse_type(str, r.pos, step[2], r.tm)
                  ELSE parse_char(str, r.pos, step[2], r.tm)
         IN  strptime_chain(str, n, Tail(steps))

\* %Z storing the label "UTC", as the FIXME of that arm proposes.
strptime_zone_labelled(str, p, r) ==
    LET utc == match_str(str, p, Chars("UTC"))
        gmt == IF utc = "false" THEN match_str(str, p, Chars("GMT")) ELSE utc
    IN  IF gmt = "fail" THEN Fail(p, r)
        ELSE IF gmt = "true"
             THEN Ok(p + 3, [r EXCEPT !.tm_gmtoff = 0,
                                      !.tm_zone = Zone(Chars("UTC"))])
             ELSE Ok(skip_zone(str, p), r)

\* %Z
strptime_zone(str, p, r) ==
    LET utc == match_str(str, p, Chars("UTC"))
        gmt == IF utc = "false" THEN match_str(str, p, Chars("GMT")) ELSE utc
    IN  IF gmt = "fail" THEN Fail(p, r)
        ELSE IF gmt = "true"
             THEN Ok(p + 3, [r EXCEPT !.tm_gmtoff = 0, !.tm_zone = NullZone])
             ELSE Ok(skip_zone(str, p), r)

\* %z storing the offset it read.
strptime_offset_applied(str, p, r) ==
    LET x == char_range_at(str, p)
    IN  IF x.fail THEN Fail(p, r)
        ELSE IF x.ch = "+" \/ x.ch = "-"
             THEN LET m == match_digits(str, x.next, 4, FALSE)
                      secs == (m.value \div 100) * 3600 + (m.value % 100) * 60
                  IN  Alt(m, p, r,
                          [r EXCEPT !.tm_gmtoff =
                                      IF x.ch = "-" THEN 0 - secs ELSE secs,
                                    !.tm_zone = NullZone],
                          "Invalid zone offset")
             ELSE Err(<<"Invalid zone offset">>, p, r)

\* %z taking any character where the sign stands.
strptime_offset_unsigned(str, p, r) ==
    LET x == char_range_at(str, p)
    IN  IF x.fail THEN Fail(p, r)
        ELSE LET m == match_digits(str, x.next, 4, FALSE)
             IN  Alt(m, p, r,
                     IF m.value = 0
                     THEN [r EXCEPT !.tm_gmtoff = 0, !.tm_zone = NullZone]
                     ELSE r,
                     "Invalid zone offset")

\* %z
strptime_offset(str, p, r) ==
    LET x == char_range_at(str, p)
    IN  IF x.fail THEN Fail(p, r)
        ELSE IF x.ch = "+" \/ x.ch = "-"
             THEN LET m == match_digits(str, x.next, 4, FALSE)
                  IN  Alt(m, p, r,
                          IF m.value = 0
                          THEN [r EXCEPT !.tm_gmtoff = 0, !.tm_zone = NullZone]
                          ELSE r,
                          "Invalid zone offset")
             ELSE Err(<<"Invalid zone offset">>, p, r)

\* %j storing the value as read, without the - 1.
yday_of_raw(v) == v

\* %j: the tm_yday stored for the value read.
yday_of(v) == v - 1

\* %m keeping the month within 0..11.
mon_of_clamped(v) == IF v > 12 THEN 11 ELSE IF v < 1 THEN 0 ELSE v - 1

\* %m: the tm_mon stored for the value read.
mon_of(v) == v - 1

\* %Y and %y: the tm_year stored for the value read.
year_of(v) == v - 1900

\* %C: the tm_year after the century v is read.
year_add_century(year, v) == year + (v * 100 - 1900)

\* %p and %P assigning the half-day value in place of adding it.
hour_set(hour, v) == v

\* %p and %P: the tm_hour after the half-day value v (0 or 12) is matched.
hour_add(hour, v) == hour + v

\* A letter with no arm of its own skipped in place of refused.
unknown_type_skipped(ch, p, r) == Ok(p, r)

\* The last arm of parse_type: a letter with no arm of its own.
unknown_type(ch, p, r) == Err(<<"unknown formatting type", ch>>, p, r)

strptime_parse_type(str, p, ch, r) ==
    LET d1 == match_digits(str, p, 1, FALSE)
        d2 == match_digits(str, p, 2, FALSE)
        d2ws == match_digits(str, p, 2, TRUE)
        d3 == match_digits(str, p, 3, FALSE)
        d4 == match_digits(str, p, 4, FALSE)
        Named(strs) == match_strs(str, p, strs)
    IN
    CASE ch = "A" -> Alt(Named(DayNames), p, r,
                         [r EXCEPT !.tm_wday = Named(DayNames).value], "Invalid day")
      [] ch = "a" -> Alt(Named(DayAbbrs), p, r,
                         [r EXCEPT !.tm_wday = Named(DayAbbrs).value], "Invalid day")
      [] ch = "B" -> Alt(Named(MonthNames), p, r,
                         [r EXCEPT !.tm_mon = Named(MonthNames).value], "Invalid month")
      [] ch \in {"b", "h"} ->
                     Alt(Named(MonthAbbrs), p, r,
                         [r EXCEPT !.tm_mon = Named(MonthAbbrs).value], "Invalid month")
      [] ch = "C" -> Alt(d2, p, r,
                         [r EXCEPT !.tm_year = year_add_century(r.tm_year, d2.value)],
                         "Invalid year")
      [] ch = "d" -> Alt(d2, p, r, [r EXCEPT !.tm_mday = d2.value],
                         "Invalid day of the month")
      [] ch = "e" -> Alt(d2ws, p, r, [r EXCEPT !.tm_mday = d2ws.value],
                         "Invalid day of the month")
      [] ch = "H" -> Alt(d2, p, r, [r EXCEPT !.tm_hour = d2.value], "Invalid hour")
      [] ch = "I" -> Alt(d2, p, r, [r EXCEPT !.tm_hour = hour_of_12(d2.value)],
                         "Invalid hour")
      [] ch = "j" -> Alt(d3, p, r, [r EXCEPT !.tm_yday = yday_of(d3.value)],
                         "Invalid year")
      [] ch = "k" -> Alt(d2ws, p, r, [r EXCEPT !.tm_hour = d2ws.value], "Invalid hour")
      [] ch = "l" -> Alt(d2ws, p, r, [r EXCEPT !.tm_hour = hour_of_12(d2ws.value)],
                         "Invalid hour")
      [] ch = "M" -> Alt(d2, p, r, [r EXCEPT !.tm_min = d2.value], "Invalid minute")
      [] ch = "m" -> Alt(d2, p, r, [r EXCEPT !.tm_mon = mon_of(d2.value)],
                         "Invalid month")
      [] ch = "n" -> parse_char(str, p, "\n", r)
      [] ch = "P" -> Alt(Named(AmPmLower), p, r,
                         [r EXCEPT !.tm_hour = hour_add(r.tm_hour, Named(AmPmLower).value)],
                         "Invalid hour")
      [] ch = "p" -> Alt(Named(AmPmUpper), p, r,
                         [r EXCEPT !.tm_hour = hour_add(r.tm_hour, Named(AmPmUpper).value)],
                         "Invalid hour")
      [] ch = "S" -> Alt(d2, p, r, [r EXCEPT !.tm_sec = d2.value], "Invalid second")
      [] ch = "t" -> parse_char(str, p, "\t", r)
      [] ch \in {"u", "w"} ->
                     Alt(d1, p, r, [r EXCEPT !.tm_wday = d1.value], "Invalid weekday")
      [] ch = "Y" -> Alt(d4, p, r, [r EXCEPT !.tm_year = year_of(d4.value)],
                         "Invalid weekday")
      [] ch = "y" -> Alt(d2, p, r, [r EXCEPT !.tm_year = year_of(d2.value)],
                         "Invalid weekday")
      [] ch = "Z" -> strptime_zone(str, p, r)
      [] ch = "z" -> strptime_offset(str, p, r)
      [] ch = "%" -> parse_char(str, p, "%", r)
      [] strptime_composite(ch) # <<>> ->
                     strptime_chain(str, Ok(p, r), strptime_composite(ch))
      [] OTHER -> unknown_type(ch, p, r)

---------------------------------------------------------------------------
(* strptime: the loop over the format reader.  A loop state is             *)
(* [rpos, pos, tm, result, ctl]; ctl is "loop" while the while-loop runs,  *)
(* "break" once it has been left by break, "fail" when the task failed.    *)
(* What strptime returns is [kind, tm, msg] with tm a one-element sequence *)
(* for ok(tm) and <<>> otherwise.                                          *)

strptime_init ==
    [rpos |-> 0, pos |-> 0, tm |-> empty_tm,
     result |-> [kind |-> "err", tm |-> <<>>, msg |-> <<"Invalid time">>],
     ctl |-> "loop"]

\* while !rdr.eof() && pos < len
strptime_cond(str, fmt, st) == st.rpos < Len(fmt) /\ st.pos < Len(str)

\* rdr.read_char() at reader position rp
read_char(fmt, rp) == IF rp < Len(fmt) THEN fmt[rp + 1] ELSE EOFCH

\* the reader position after a read_char() at rp
read_next(fmt, rp) == IF rp < Len(fmt) THEN rp + 1 ELSE rp

\* One iteration of the while-loop.
strptime_body(str, fmt, st) ==
    LET x == char_range_at(str, st.pos)
        c == read_char(fmt, st.rpos)
        r1 == read_next(fmt, st.rpos)
    IN  IF c = "%"
        THEN LET r == strptime_parse_type(str, st.pos, read_char(fmt, r1), st.tm)
                 r2 == read_next(fmt, r1)
             IN  CASE r.kind = "ok" ->
                        [st EXCEPT !.rpos = r2, !.pos = r.pos, !.tm = r.tm]
                   [] r.kind = "err" ->
                        [st EXCEPT !.rpos = r2, !.tm = r.tm, !.ctl = "break",
                                   !.result = [kind |-> "err", tm |-> <<>>,
                                               msg |-> r.msg]]
                   [] OTHER -> [st EXCEPT !.rpos = r2, !.tm = r.tm, !.ctl = "fail"]
        ELSE IF c # x.ch
             THEN [st EXCEPT !.rpos = r1, !.ctl = "break"]
             ELSE [st EXCEPT !.rpos = r1, !.pos = x.next]

\* The return with the test pos == len left out.
strptime_return_eof(str, fmt, st) ==
    IF st.ctl = "fail" THEN [kind |-> "fail", tm |-> <<>>, msg |-> <<>>]
    ELSE IF st.rpos = Len(fmt)
         THEN [kind |-> "ok", tm |-> <<st.tm>>, msg |-> <<>>]
         ELSE st.result

\* if pos == len && rdr.eof() { ok({..}) } else { result }
strptime_return(str, fmt, st) ==
    IF st.ctl = "fail" THEN [kind |-> "fail", tm |-> <<>>, msg |-> <<>>]
    ELSE IF st.pos = Len(str) /\ st.rpos = Len(fmt)
         THEN [kind |-> "ok", tm |-> <<st.tm>>, msg |-> <<>>]
         ELSE st.result

RECURSIVE strptime_loop(_, _, _)
strptime_loop(str, fmt, st) ==
    IF st.ctl = "loop" /\ strptime_cond(str, fmt, st)
    THEN strptime_loop(str, fmt, strptime_body(str, fmt, st))
    ELSE st

strptime(str, fmt) ==
    strptime_return(str, fmt, strptime_loop(str, fmt, strptime_init))

---------------------------------------------------------------------------
(* strftime.  A rendering is [kind, str]: kind "fail" stands for the task  *)
(* failing in a non-exhaustive `alt check`.                                *)

Text(x) == [kind |-> "ok", str |-> x]
NoText == [kind |-> "fail", str |-> <<>>]

\* The names the formatter's `alt check` arms give for the values 0, 1, ...
strftime_A == <<Chars("Sunday"), Chars("Monday"), Chars("Tuesday"),
                Chars("Wednesday"), Chars("Thursday"), Chars("Friday"),
                Chars("Saturday")>>

strftime_a == <<Chars("Sun"), Chars("Mon"), Chars("Tue"), Chars("Wed"),
                Chars("Thu"), Chars("Fri"), Chars("Sat")>>

strftime_B == <<Chars("January"), Chars("February"), Chars("March"),
                Chars("April"), Chars("May"), Chars("June"), Chars("July"),
                Chars("August"), Chars("September"), Chars("October"),
                Chars("November"), Chars("December")>>

strftime_b == <<Chars("Jan"), Chars("Feb"), Chars("Mar"), Chars("Apr"),
                Chars("May"), Chars("Jun"), Chars("Jul"), Chars("Aug"),
                Chars("Sep"), Chars("Oct"), Chars("Nov"), Chars("Dec")>>

\* alt check <field> as int { 0 {..} 1 {..} ... }: no arm, and the task fails.
alt_check(names, v) ==
    IF v \in 0..(Len(names) - 1) THEN Text(names[v + 1]) ELSE NoText

\* The parts of a composite specifier of the formatter, and the
\* separators #fmt puts between them.
strftime_composite(ch) ==
    CASE ch = "c" -> [parts |-> <<"a", "b", "e", "T", "Y">>,
                      seps |-> <<" ", " ", " ", " ">>]
      [] ch \in {"D", "x"} -> [parts |-> <<"m", "d", "y">>, seps |-> <<"/", "/">>]
      [] ch = "F" -> [parts |-> <<"Y", "m", "d">>, seps |-> <<"-", "-">>]
      [] ch = "R" -> [parts |-> <<"H", "M">>, seps |-> <<":">>]
      [] ch = "r" -> [parts |-> <<"I", "M", "S", "p">>, seps |-> <<":", ":", " ">>]
      [] ch \in {"T", "X"} -> [parts |-> <<"H", "M", "S">>, seps |-> <<":", ":">>]
      [] ch = "v" -> [parts |-> <<"e", "b", "Y">>, seps |-> <<"-", "-">>]
      [] OTHER -> [parts |-> <<>>, seps |-> <<>>]

\* %s: the digits of tm.to_timespec().sec, which libc's timegm/mktime
\* compute; they are outside this module and stand here as one token.
EPOCH == "to_timespec().sec"

\* %I and %l: the hour shown for tm_hour h.
hour_12(h) ==
    LET h1 == IF h = 0 THEN 12 ELSE h
    IN  IF h1 > 12 THEN h1 - 12 ELSE h1

\* %u: the number shown for tm_wday i.
wday_u(i) == IF i = 0 THEN 7 ELSE i

\* %p and %P
am_pm(h, am, pm) == IF h < 12 THEN am ELSE pm

\* %z giving '+' to an offset of zero as well.
strftime_offset_plus(gmtoff) ==
    LET sign == IF gmtoff >= 0 THEN "+" ELSE "-"
        m0 == Abs(gmtoff) \div 60
        h == m0 \div 60
        m == m0 - h * 60
    IN  <<sign>> \o FmtZero(2, h) \o FmtZero(2, m)

\* %z: sign, hours and minutes of tm_gmtoff.
strftime_offset(gmtoff) ==
    LET sign == IF gmtoff > 0 THEN "+" ELSE "-"
        m0 == Abs(gmtoff) \div 60
        h == m0 \div 60
        m == m0 - h * 60
    IN  <<sign>> \o FmtZero(2, h) \o FmtZero(2, m)

RECURSIVE strftime_parse_type(_, _)
RECURSIVE strftime_join(_, _, _)

\* #fmt("%s<sep>%s..", parse_type(a, tm), parse_type(b, tm), ..)
strftime_join(parts, seps, r) ==
    LET first == strftime_parse_type(parts[1], r)
    IN  IF first.kind # "ok" THEN NoText
        ELSE IF Len(parts) = 1 THEN first
        ELSE LET rest == strftime_join(Tail(parts), Tail(seps), r)
             IN  IF rest.kind # "ok" THEN NoText
                 ELSE Text(first.str \o <<seps[1]>> \o rest.str)

strftime_parse_type(ch, r) ==
    CASE ch = "A" -> alt_check(strftime_A, r.tm_wday)
      [] ch = "a" -> alt_check(strftime_a, r.tm_wday)
      [] ch = "B" -> alt_check(strftime_B, r.tm_mon)
      [] ch \in {"b", "h"} -> alt_check(strftime_b, r.tm_mon)
      [] ch = "C" -> Text(FmtZero(2, TruncDiv(r.tm_year + 1900, 100)))
      [] ch = "d" -> Text(FmtZero(2, r.tm_mday))
      [] ch = "e" -> Text(FmtSpace(2, r.tm_mday))
      [] ch = "H" -> Text(FmtZero(2, r.tm_hour))
      [] ch = "I" -> Text(FmtZero(2, hour_12(r.tm_hour)))
      [] ch = "j" -> Text(FmtZero(3, r.tm_yday + 1))
      [] ch = "k" -> Text(FmtSpace(2, r.tm_hour))
      [] ch = "l" -> Text(FmtSpace(2, hour_12(r.tm_hour)))
      [] ch = "M" -> Text(FmtZero(2, r.tm_min))
      [] ch = "m" -> Text(FmtZero(2, r.tm_mon + 1))
      [] ch = "n" -> Text(<<"\n">>)
      [] ch = "P" -> Text(am_pm(r.tm_hour, Chars("am"), Chars("pm")))
      [] ch = "p" -> Text(am_pm(r.tm_hour, Chars("AM"), Chars("PM")))
      [] ch = "S" -> Text(FmtZero(2, r.tm_sec))
      [] ch = "s" -> Text(<<EPOCH>>)
      [] ch = "t" -> Text(<<"\t">>)
      [] ch = "u" -> Text(IntStr(wday_u(r.tm_wday)))
      [] ch = "w" -> Text(IntStr(r.tm_wday))
      [] ch = "Y" -> Text(IntStr(r.tm_year + 1900))
      [] ch = "y" -> Text(FmtZero(2, TruncRem(r.tm_year + 1900, 100)))
      [] ch = "Z" -> Text(IF r.tm_zone = NullZone THEN <<>> ELSE r.tm_zone[1])
      [] ch = "z" -> Text(strftime_offset(r.tm_gmtoff))
      [] ch = "%" -> Text(<<"%">>)
      [] strftime_composite(ch).parts # <<>> ->
            strftime_join(strftime_composite(ch).parts, strftime_composite(ch).seps, r)
      [] OTHER -> NoText

RECURSIVE strftime_from(_, _, _, _)
\* while !rdr.eof() { alt rdr.read_char() { '%' {..} ch {..} } }
strftime_from(fmt, rp, r, buf) ==
    IF rp >= Len(fmt) THEN Text(buf)
    ELSE LET c == read_char(fmt, rp)
             r1 == read_next(fmt, rp)
         IN  IF c = "%"
             THEN LET x == strftime_parse_type(read_char(fmt, r1), r)
                  IN  IF x.kind # "ok" THEN NoText
                      ELSE strftime_from(fmt, read_next(fmt, r1), r, buf \o x.str)
             ELSE strftime_from(fmt, r1, r, buf \o <<c>>)

strftime(fmt, r) == strftime_from(fmt, 0, r, <<>>)

\* impl tm: fn ctime()
ctime(r) == strftime(Chars("%c"), r)

\* The test of rfc822 and rfc3339 passing within a minute of zero.
is_utc_rounded(gmtoff) == Abs(gmtoff) < 60

\* self.tm_gmtoff == 0 as c_long
is_utc(gmtoff) == gmtoff = 0

\* rfc822 showing the zone label whatever the offset.
rfc822_labelled(r) == strftime(Chars("%a, %d %b %Y %T %Z"), r)

\* impl tm: fn rfc822()
rfc822(r) ==
    IF is_utc(r.tm_gmtoff)
    THEN strftime(Chars("%a, %d %b %Y %T GMT"), r)
    ELSE strftime(Chars("%a, %d %b %Y %T %Z"), r)

\* impl tm: fn rfc822z()
rfc822z(r) == strftime(Chars("%a, %d %b %Y %T %z"), r)

\* impl tm: fn rfc3339()
rfc3339(r) ==
    IF is_utc(r.tm_gmtoff)
    THEN strftime(Chars("%Y-%m-%dT%H:%M:%SZ"), r)
    ELSE LET x == strftime(Chars("%Y-%m-%dT%H:%M:%S"), r)
             gmtoff == r.tm_gmtoff
             sign == IF gmtoff > 0 THEN "+" ELSE "-"
             m0 == Abs(gmtoff) \div 60
             h == m0 \div 60
             m == m0 - h * 60
         IN  IF x.kind # "ok" THEN NoText
             ELSE Text(x.str \o <<sign>> \o FmtZero(2, h) \o <<":">>
                             \o FmtZero(2, m))

---------------------------------------------------------------------------
(* The inputs drawn. *)

YearSpan == 1       \* calendar years 2009 - YearSpan .. 2009 + YearSpan
OffsetSteps == 2    \* offsets of -OffsetSteps .. OffsetSteps half hours

\* at(1234567890) under TZ=America/Los_Angeles, as test_at asserts it.
local_tm ==
    [tm_sec |-> 30, tm_min |-> 31, tm_hour |-> 15, tm_mday |-> 13, tm_mon |-> 1,
     tm_year |-> 109, tm_wday |-> 5, tm_yday |-> 43, tm_isdst |-> 0,
     tm_gmtoff |-> -28800, tm_zone |-> Zone(Chars("PST")), tm_nsec |-> 54321]

\* at_utc(1234567890), as test_at_utc asserts it.
utc_tm ==
    [local_tm EXCEPT !.tm_hour = 23, !.tm_gmtoff = 0,
                     !.tm_zone = Zone(Chars("UTC"))]

Vary(base, f, S) == {[base EXCEPT ![f] = v] : v \in S}

Years == {y - 1900 : y \in ((2009 - YearSpan)..(2009 + YearSpan))
                           \cup {1000, 1899, 1900, 1969, 1999, 2000, 9999}}

Offsets == {k * 1800 : k \in (0 - OffsetSteps)..OffsetSteps}
           \cup {-43200, -28800, -60, 1, 19800, 50400}

\* tm values with every field in its documented domain (the comments of
\* type tm) and a four-digit calendar year.
Tms ==
    {utc_tm}
    \cup Vary(local_tm, "tm_hour", 0..23)
    \cup Vary(local_tm, "tm_min", {0, 9, 10, 59})
    \cup Vary(local_tm, "tm_sec", {0, 9, 10, 59, 60})
    \cup Vary(local_tm, "tm_mday", 1..31)
    \cup Vary(local_tm, "tm_mon", 0..11)
    \cup Vary(local_tm, "tm_wday", 0..6)
    \cup Vary(local_tm, "tm_yday", {0, 8, 9, 98, 99, 364, 365})
    \cup Vary(local_tm, "tm_year", Years)
    \cup Vary(local_tm, "tm_gmtoff", Offsets)
    \cup Vary(local_tm, "tm_zone", {NullZone})
    \cup {[local_tm EXCEPT !.tm_hour = h, !.tm_mday = d, !.tm_mon = m,
                           !.tm_year = y, !.tm_wday = w]
            : h \in {0, 12}, d \in {1, 31}, m \in {0, 11},
              y \in {1000 - 1900, 9999 - 1900}, w \in {0, 6}}

\* The specifier letters strptime's parse_type has an arm for.
\* The tm values the derived formatters are applied to: those above, and
\* one with offset 0 and no zone label, as strptime returns them.
DerivedTms == Tms \cup {[utc_tm EXCEPT !.tm_zone = NullZone]}

ParseLetters == {"A", "a", "B", "b", "h", "C", "c", "D", "x", "d", "e", "F",
                 "H", "I", "j", "k", "l", "M", "m", "n", "P", "p", "R", "r",
                 "S", "T", "X", "t", "u", "v", "w", "Y", "y", "Z", "z", "%"}

\* The letters the source lists as missing (commented-out arms) and '+'.
UnassignedLetters == {"G", "g", "U", "V", "W", "+"}

\* The format string a caller writes in place of a composite specifier.
ExpansionOf(ch) ==
    CASE ch \in {"T", "X"} -> Chars("%H:%M:%S")
      [] ch = "R" -> Chars("%H:%M")
      [] ch = "F" -> Chars("%Y-%m-%d")
      [] ch \in {"D", "x"} -> Chars("%m/%d/%y")
      [] ch = "r" -> Chars("%I:%M:%S %p")
      [] ch = "v" -> Chars("%e-%b-%Y")
      [] ch = "c" -> Chars("%a %b %e %T %Y")
      [] OTHER -> <<"%", ch>>

CompositeLetters == {"T", "X", "R", "F", "D", "x", "r", "v", "c"}

\* The format with a lone composite specifier written out.
Expand(fmt) ==
    IF Len(fmt) = 2 /\ fmt[1] = "%" THEN ExpansionOf(fmt[2]) ELSE fmt

Single(L) == {<<"%", ch>> : ch \in L}

MixedFormats ==
    {Chars("%I %p"), Chars("%H %p"), Chars("%p %I"), Chars("%Z %Y"),
     Chars("%a %b %e %T %Y"), Chars("%l%P"), Chars("%Y%m%d"),
     Chars("%Y %Z")}

\* Formats given to strftime and then to strptime on strftime's text.
FormatCases == Single(ParseLetters) \cup MixedFormats

ParseFormats ==
    Single(ParseLetters) \cup Single(UnassignedLetters) \cup MixedFormats
    \cup {ExpansionOf(ch) : ch \in CompositeLetters}
    \cup {<<>>, Chars("%"), Chars("UTC"), Chars("%d%"), Chars("%d %G"),
          Chars("%Y %z"), Chars("%H:%M"), Chars("%d-%m")}

ParseStrings ==
    {Chars(x) : x \in
       {"", "UTC", "GMT", "PST", "UT", "UTCX", "PST 2009", "UTC 2009",
        "GMT 2009", "PST  2009", "2009 PST", "2009 UTC", "-0000", "+0000", "-0800", "+0530", "0800",
        "-08", "-08x0", "15 PM", "PM 03", "12 AM", "03 PM", "12 PM", "12 pm",
        "Fri Feb 13 15:31:30", "Fri Feb 13 15:31:30 2009",
        "Fri Feb 13 15:31:30 2009 ", "99", "00", "12", "7", "9", "3 ", " 3",
        "  ", "13", "1", "13 ", "15:31:30", "99:99:99", "15:31", "15:31:30x",
        "2009-02-13", "02/13/09", "11:31:30 PM", "12:00:00 AM", "13-Feb-2009",
        " 3-Feb-2009", "2009", "13 x", "20090213", "20", "044", "000", "Friday", "Fri",
        "Frid", "February", "Feb", "May", "am", "\n", "\t", "%", "x", " ",
        "2009 -0800", "2009 +0000", "2009 0800", "x0800", "-080", "-08001",
        "+9999", "9999", "0000", "999", "99x", "9 ", " 9", "15-31", "15:3x",
        "13/02", "UTX"}}

---------------------------------------------------------------------------
(* The state machine: a caller formats a tm and parses the text back, or   *)
(* parses a given string; either way it then parses the same input with    *)
(* the composite written out, and formats the tm it got.  A third caller   *)
(* applies rfc822, rfc822z, rfc3339 and ctime to a tm.                     *)

NoRendering == [kind |-> "none", str |-> <<>>]
NoResult == [kind |-> "none", tm |-> <<>>, msg |-> <<>>]

St == [rpos |-> rpos, pos |-> pos, tm |-> tm, result |-> result, ctl |-> pc]

Init ==
    /\ oob \in {"fail", "nul"}
    /\ \/ /\ t \in {<<x>> : x \in Tms}
          /\ format \in FormatCases
          /\ s = <<>>
          /\ pc = "strftime"
       \/ /\ t = <<>>
          /\ format \in ParseFormats
          /\ s \in ParseStrings
          /\ pc = "loop"
       \/ /\ t \in {<<x>> : x \in DerivedTms}
          /\ format = <<>>
          /\ s = <<>>
          /\ pc = "rfc822"
    /\ out = NoRendering
    /\ outE = NoRendering
    /\ rpos = strptime_init.rpos
    /\ pos = strptime_init.pos
    /\ tm = strptime_init.tm
    /\ result = strptime_init.result
    /\ res = NoResult
    /\ resE = NoResult
    /\ back = NoRendering
    /\ shown = NoRendering
    /\ r822 = NoRendering
    /\ r822z = NoRendering
    /\ r3339 = NoRendering
    /\ last = <<>>

\* tm.strftime(format)
Strftime ==
    /\ pc = "strftime"
    /\ out' = strftime(format, t[1])
    /\ s' = out'.str
    /\ pc' = "expansion"
    /\ UNCHANGED <<r822, r822z, r3339,
                   oob, t, format, outE, rpos, pos, tm, result, res, resE,
                   back, shown, last>>

\* tm.strftime(the composite written out); strptime starts on the text
\* unless the task failed in strftime.
StrftimeExpansion ==
    /\ pc = "expansion"
    /\ outE' = strftime(Expand(format), t[1])
    /\ pc' = IF out.kind = "ok" THEN "loop" ELSE "failed"
    /\ UNCHANGED <<r822, r822z, r3339,
                   oob, t, format, s, out, rpos, pos, tm, result, res, resE,
                   back, shown, last>>

Iterate ==
    LET n == strptime_body(s, format, St)
    IN  /\ rpos' = n.rpos
        /\ pos' = n.pos
        /\ tm' = n.tm
        /\ result' = n.result
        /\ pc' = n.ctl
        /\ last' = <<[rpos |-> rpos, pos |-> pos, tm |-> tm]>>
        /\ UNCHANGED <<r822, r822z, r3339,
                       oob, t, format, s, out, outE, res, resE, back, shown>>

\* strptime, one iteration of the loop: the '%' arm.
Specifier ==
    /\ pc = "loop"
    /\ strptime_cond(s, format, St)
    /\ read_char(format, rpos) = "%"
    /\ Iterate

\* strptime, one iteration of the loop: the arm of a literal character.
Literal ==
    /\ pc = "loop"
    /\ strptime_cond(s, format, St)
    /\ read_char(format, rpos) # "%"
    /\ Iterate

\* strptime after the loop.
Return ==
    /\ \/ pc \in {"break", "fail"}
       \/ pc = "loop" /\ ~strptime_cond(s, format, St)
    /\ res' = strptime_return(s, format, St)
    /\ pc' = "returned"
    /\ UNCHANGED <<r822, r822z, r3339,
                   oob, t, format, s, out, outE, rpos, pos, tm, result, resE,
                   back, shown, last>>

\* strptime(s, the composite written out)
StrptimeExpansion ==
    /\ pc = "returned"
    /\ resE' = strptime(s, Expand(format))
    /\ pc' = "parsed"
    /\ UNCHANGED <<r822, r822z, r3339,
                   oob, t, format, s, out, outE, rpos, pos, tm, result, res,
                   back, shown, last>>

\* tm.strftime(format) on the tm strptime returned.
Reformat ==
    /\ pc = "parsed"
    /\ res.kind = "ok"
    /\ back' = strftime(format, res.tm[1])
    /\ pc' = "done"
    /\ UNCHANGED <<r822, r822z, r3339,
                   oob, t, format, s, out, outE, rpos, pos, tm, result, res,
                   resE, shown, last>>

\* tm.ctime(), on the tm strptime returned or on the third caller's tm.
Ctime ==
    /\ pc \in {"done", "ctime"}
    /\ shown' = ctime(IF pc = "done" THEN res.tm[1] ELSE t[1])
    /\ pc' = IF pc = "done" THEN "end" ELSE "shown"
    /\ UNCHANGED <<r822, r822z, r3339, oob, t, format, s, out, outE, rpos,
                   pos, tm, result, res, resE, back, last>>

\* t.rfc822()
Rfc822 ==
    /\ pc = "rfc822"
    /\ r822' = rfc822(t[1])
    /\ pc' = "rfc822z"
    /\ UNCHANGED <<r822z, r3339, oob, t, format, s, out, outE, rpos, pos, tm,
                   result, res, resE, back, shown, last>>

\* t.rfc822z()
Rfc822z ==
    /\ pc = "rfc822z"
    /\ r822z' = rfc822z(t[1])
    /\ pc' = "rfc3339"
    /\ UNCHANGED <<r822, r3339, oob, t, format, s, out, outE, rpos, pos, tm,
                   result, res, resE, back, shown, last>>

\* t.rfc3339()
Rfc3339 ==
    /\ pc = "rfc3339"
    /\ r3339' = rfc3339(t[1])
    /\ pc' = "ctime"
    /\ UNCHANGED <<r822, r822z, oob, t, format, s, out, outE, rpos, pos, tm,
                   result, res, resE, back, shown, last>>

Next ==
    \/ Strftime
    \/ StrftimeExpansion
    \/ Specifier
    \/ Literal
    \/ Return
    \/ StrptimeExpansion
    \/ Reformat
    \/ Ctime
    \/ Rfc822
    \/ Rfc822z
    \/ Rfc3339

Spec == Init /\ [][Next]_vars

---------------------------------------------------------------------------
(* What the formulas below read off a state. *)

Returned == pc \in {"returned", "parsed", "done", "end"}
Parsed == pc \in {"parsed", "done", "end"}
Formatted == t # <<>> /\ Parsed
Given == t = <<>> /\ Returned

\* The format is the lone specifier %ch.
Lone(ch) == format = <<"%", ch>>
LoneIn(L) == \E ch \in L : Lone(ch)

\* The latest iteration of strptime's loop handled specifier %ch.
Stepped(ch) ==
    /\ last # <<>>
    /\ read_char(format, last[1].rpos) = "%"
    /\ read_char(format, last[1].rpos + 1) = ch

---------------------------------------------------------------------------
(* C1: field round-trip. *)

\* The fields a specifier touches.
RECURSIVE Touches(_)
Touches(ch) ==
    CASE ch \in {"A", "a", "u", "w"} -> {"tm_wday"}
      [] ch \in {"B", "b", "h", "m"} -> {"tm_mon"}
      [] ch \in {"C", "Y", "y"} -> {"tm_year"}
      [] ch \in {"d", "e"} -> {"tm_mday"}
      [] ch \in {"H", "I", "k", "l", "P", "p"} -> {"tm_hour"}
      [] ch = "j" -> {"tm_yday"}
      [] ch = "M" -> {"tm_min"}
      [] ch = "S" -> {"tm_sec"}
      [] ch = "z" -> {"tm_gmtoff"}
      [] ch = "Z" -> {"tm_zone"}
      [] ch \in CompositeLetters ->
            UNION {Touches(strftime_composite(ch).parts[i])
                     : i \in 1..Len(strftime_composite(ch).parts)}
      [] OTHER -> {}

\* C1: for every specifier letter X that strptime and strftime both handle
\* and every tm t with in-domain fields, strptime(strftime("%X", t), "%X")
\* is ok and returns a tm equal to t on every field %X touches.
C1_FieldRoundTrip ==
    (Formatted /\ LoneIn(ParseLetters)) =>
        /\ res.kind = "ok"
        /\ \A f \in Touches(format[2]) : res.tm[1][f] = t[1][f]

\* C1 for the weekday specifiers (tm_wday for %a, %A, %u and %w): the text
\* strftime gives for the weekday parses back to the same tm_wday.
C1_WeekdayRoundTrip ==
    (Formatted /\ LoneIn({"a", "A", "u", "w"})) =>
        /\ res.kind = "ok"
        /\ res.tm[1].tm_wday = t[1].tm_wday

---------------------------------------------------------------------------
(* C2: text round-trip. *)

\* The specifiers test_strptime gives to its round-trip helper.
TestLetters == {"A", "a", "B", "b", "C", "c", "D", "d", "e", "F", "H", "I",
                "j", "k", "l", "M", "n", "P", "p", "R", "r", "S", "T", "t",
                "u", "v", "w", "Y", "y", "%"}

\* C2: for every specifier X of the round-trip helper and every string s
\* that strftime("%X", t) produces from an in-domain tm with a four-digit
\* year, strptime(s, "%X") is ok(tm') and strftime("%X", tm') is s again.
C2_TextRoundTrip ==
    (Formatted /\ LoneIn(TestLetters)) =>
        /\ res.kind = "ok"
        /\ pc \in {"done", "end"} => back = Text(s)

\* 12:31:30 PM goes through %r and comes back as the same text.
C2_Witness ==
    /\ pc = "done"
    /\ t # <<>>
    /\ Lone("r")
    /\ t[1].tm_hour = 12
    /\ s = Chars("12:31:30 PM")
    /\ back = Text(s)

---------------------------------------------------------------------------
(* C3: strict totality of match. *)

InvalidTime == [kind |-> "err", tm |-> <<>>, msg |-> <<"Invalid time">>]

\* C3: strptime is ok only when the whole format has been read and the
\* cursor is at the end of s; trailing input fails; an input that ends
\* while format remains fails ("Fri Feb 13 15:31:30" against
\* "%a %b %e %T %Y" and "" against a non-empty format give "Invalid time");
\* an empty format against non-empty input fails; strptime("", "") is ok
\* with every field zero.
C3_StrictMatch ==
    Returned =>
        /\ res.kind = "ok" => (rpos = Len(format) /\ pos = Len(s))
        /\ pos < Len(s) => res.kind # "ok"
        /\ rpos < Len(format) => res.kind # "ok"
        /\ (s = Chars("Fri Feb 13 15:31:30") /\ format = Chars("%a %b %e %T %Y"))
              => res = InvalidTime
        /\ (s = <<>> /\ format # <<>>) => res = InvalidTime
        /\ (s # <<>> /\ format = <<>>) => res.kind = "err"
        /\ (s = <<>> /\ format = <<>>)
              => res = [kind |-> "ok", tm |-> <<empty_tm>>, msg |-> <<>>]

\* The input ended after %T with " %Y" of the format still unread.
C3_Witness ==
    /\ pc = "returned"
    /\ s = Chars("Fri Feb 13 15:31:30")
    /\ format = Chars("%a %b %e %T %Y")
    /\ pos = Len(s)
    /\ rpos < Len(format)
    /\ res = InvalidTime

---------------------------------------------------------------------------
(* C4: composite equivalence. *)

\* C4: for every composite specifier and every tm, strftime of the
\* composite equals strftime of its expansion; and for every input that is
\* valid for the expansion, strptime with the composite and strptime with
\* the expansion both succeed and return equal tm values.
C4_CompositeEquivalence ==
    LoneIn(CompositeLetters) =>
        /\ (t # <<>> /\ outE # NoRendering) => (out.kind = "ok" /\ out = outE)
        /\ (Parsed /\ resE.kind = "ok") => res = resE

\* %c and "%a %b %e %T %Y" both accept the date of test_strptime.
C4_Witness ==
    /\ pc = "parsed"
    /\ t = <<>>
    /\ Lone("c")
    /\ s = Chars("Fri Feb 13 15:31:30 2009")
    /\ resE.kind = "ok"
    /\ resE.tm[1].tm_year = 109
    /\ res = resE

---------------------------------------------------------------------------
(* C5: 12/24-hour symmetry. *)

\* C5: for every tm_hour h in 0..23, "%I %p" (and %r) renders h and parses
\* the text back to tm_hour = h; hour 0 renders as "12 AM" and hour 15 as
\* "03 PM"; "12 AM" parses to hour 0 and "03 PM" to hour 15.
C5_HourSymmetry ==
    /\ (Formatted /\ (format = Chars("%I %p") \/ Lone("r"))) =>
          /\ res.kind = "ok"
          /\ res.tm[1].tm_hour = t[1].tm_hour
    /\ (Formatted /\ format = Chars("%I %p")) =>
          /\ t[1].tm_hour = 0 => s = Chars("12 AM")
          /\ t[1].tm_hour = 15 => s = Chars("03 PM")
    /\ (Given /\ format = Chars("%I %p")) =>
          /\ s = Chars("12 AM") => (res.kind = "ok" /\ res.tm[1].tm_hour = 0)
          /\ s = Chars("03 PM") => (res.kind = "ok" /\ res.tm[1].tm_hour = 15)

\* Noon: "12 PM" is read as 0 by %I and brought back to 12 by %p.
C5_Witness ==
    /\ Formatted
    /\ format = Chars("%I %p")
    /\ t[1].tm_hour = 12
    /\ s = Chars("12 PM")
    /\ res.kind = "ok"
    /\ res.tm[1].tm_hour = 12

---------------------------------------------------------------------------
(* C6: %p and %P add to the hour. *)

\* C6: on parse %p and %P add 0 (AM/am) or 12 (PM/pm) to the hour already
\* in the working record and never replace it ("15 PM" under "%H %p" gives
\* hour 27; an hour specifier after %p overwrites the added 12); on format
\* %p and %P depend only on whether tm_hour < 12.
C6_HalfDayAdds ==
    /\ ((Stepped("p") \/ Stepped("P")) /\ pc = "loop") =>
          tm.tm_hour = last[1].tm.tm_hour
                       + (IF s[last[1].pos + 1] \in {"A", "a"} THEN 0 ELSE 12)
    /\ (Given /\ s = Chars("15 PM") /\ format = Chars("%H %p")) =>
          (res.kind = "ok" /\ res.tm[1].tm_hour = 27)
    /\ (Given /\ s = Chars("PM 03") /\ format = Chars("%p %I")) =>
          (res.kind = "ok" /\ res.tm[1].tm_hour = 3)
    /\ (t # <<>> /\ out # NoRendering /\ Lone("p")) =>
          out = Text(IF t[1].tm_hour < 12 THEN Chars("AM") ELSE Chars("PM"))
    /\ (t # <<>> /\ out # NoRendering /\ Lone("P")) =>
          out = Text(IF t[1].tm_hour < 12 THEN Chars("am") ELSE Chars("pm"))

\* %p has just matched "PM" with 15 in the working record.
C6_Witness ==
    /\ Stepped("p")
    /\ pc = "loop"
    /\ s = Chars("15 PM")
    /\ last[1].tm.tm_hour = 15
    /\ tm.tm_hour = 27

---------------------------------------------------------------------------
(* C7: the formatter is total. *)

\* C7: for every specifier letter in the table and every tm value,
\* including every tm that strptime can return, strftime returns a string
\* and never fails.
C7_FormatterTotal ==
    /\ (t # <<>> /\ out # NoRendering) => out.kind = "ok"
    /\ pc \in {"done", "end"} => back.kind = "ok"
    /\ pc = "end" => shown.kind = "ok"

---------------------------------------------------------------------------
(* C8: unassigned specifier letters. *)

UnknownType(ch) ==
    [kind |-> "err", tm |-> <<>>, msg |-> <<"unknown formatting type", ch>>]

\* C8: strptime with a format containing %G, %g, %U, %V, %W, %X or %+,
\* reached with input remaining, returns err and never ok.
C8_UnknownSpecifier ==
    (Given /\ s # <<>> /\ LoneIn(UnassignedLetters \cup {"X"})) =>
        res.kind # "ok"

\* C8 as amended: %G, %g, %U, %V, %W and %+, reached with input remaining,
\* end the loop with the unknown-specifier error, which strptime returns;
\* %X is not unassigned: it is parsed as %H:%M:%S.
C8_UnknownSpecifierAmended ==
    /\ \A ch \in UnassignedLetters :
          Stepped(ch) =>
             /\ pc \notin {"loop", "fail"}
             /\ result = UnknownType(ch)
             /\ Returned => res = UnknownType(ch)
    /\ (Given /\ s # <<>> /\ LoneIn(UnassignedLetters)) =>
          res = UnknownType(format[2])
    /\ (Parsed /\ Lone("X") /\ resE.kind = "ok") => res = resE

\* %G is reached after %d has read "13" and "x" remains.
C8_Witness ==
    /\ pc = "returned"
    /\ s = Chars("13 x")
    /\ format = Chars("%d %G")
    /\ Stepped("G")
    /\ res = UnknownType("G")

---------------------------------------------------------------------------
(* C9 and C10: %Z. *)

RECURSIVE TokenEnd(_, _)
\* The offset of the first blank at or after p, or the end of the string.
TokenEnd(str, p) ==
    IF p >= Len(str) \/ str[p + 1] = " " THEN p ELSE TokenEnd(str, p + 1)

\* The characters from offset p up to the next blank or the end.
Token(str, p) == SubSeq(str, p + 1, TokenEnd(str, p))

\* The latest iteration handled %Z on something other than "UTC" and "GMT"
\* and returned ok.
SteppedOtherZone ==
    /\ Stepped("Z")
    /\ pc = "loop"
    /\ Token(s, last[1].pos) \notin {Chars("UTC"), Chars("GMT")}

\* C9: after %Z on a token that is neither "UTC" nor "GMT" the cursor is at
\* the next space (which is not consumed) or at the end of the input, so
\* "%Z %Y" succeeds on "PST 2009" just as it does on "UTC 2009".
C9_ZoneStopsAtSpace ==
    /\ (SteppedOtherZone /\ Token(s, last[1].pos) # <<>>) =>
          pos = TokenEnd(s, last[1].pos)
    /\ (Given /\ format = Chars("%Z %Y")
              /\ s \in {Chars("PST 2009"), Chars("UTC 2009")}) =>
          (res.kind = "ok" /\ res.tm[1].tm_year = 109)

---------------------------------------------------------------------------
(* C11: %z on parse. *)

\* The latest iteration handled specifier %ch and strptime has not left
\* the loop's state behind: pc is "loop", "break" or "fail".
JustStepped(ch) == Stepped(ch) /\ pc \in {"loop", "break", "fail"}

\* The characters at offsets p .. p + n - 1 exist and are decimal digits.
DigitsAt(str, p, n) ==
    p + n <= Len(str) /\ \A i \in 1..n : IsDigit(str[p + i])

\* A sign at offset p followed by four decimal digits.
SignedOffset(str, p) ==
    p < Len(str) /\ str[p + 1] \in {"+", "-"} /\ DigitsAt(str, p + 1, 4)

\* A character of the input breaks the syntax: the one at p is no sign, or
\* one of the four after a sign is no digit.
BrokenOffset(str, p) ==
    /\ p < Len(str)
    /\ \/ str[p + 1] \notin {"+", "-"}
       \/ \E i \in 1..4 : /\ p + i < Len(str)
                           /\ ~IsDigit(str[p + i + 1])
                           /\ DigitsAt(str, p + 1, i - 1)

ZoneOffsetError ==
    [kind |-> "err", tm |-> <<>>, msg |-> <<"Invalid zone offset">>]

---------------------------------------------------------------------------
(* C12: %z on format. *)

\* The two decimal digits of n, for n in 0..99.
TwoDigits(n) == <<DIGITS[(n \div 10) + 1], DIGITS[(n % 10) + 1]>>

\* The sign the offset o is shown with.
SignOf(o) == IF o > 0 THEN "+" ELSE "-"

\* C12: %z on format renders tm_gmtoff = o as a sign, two-digit hours
\* (|o| / 3600) and two-digit minutes ((|o| / 60) mod 60); the sign is '+'
\* only when o > 0 and '-' when o is zero or negative: -28800 gives
\* "-0800" and 0 gives "-0000".
C12_OffsetRendering ==
    (t # <<>> /\ out # NoRendering /\ Lone("z")) =>
        LET o == t[1].tm_gmtoff
        IN  /\ out = Text(<<SignOf(o)>> \o TwoDigits(Abs(o) \div 3600)
                                        \o TwoDigits((Abs(o) \div 60) % 60))
            /\ o = -28800 => out = Text(Chars("-0800"))
            /\ o = 0 => out = Text(Chars("-0000"))
            /\ out.str[1] = "+" <=> o > 0

\* The offset 0 of at_utc has been rendered by %z.
C12_Witness ==
    /\ t = <<utc_tm>>
    /\ Lone("z")
    /\ out = Text(Chars("-0000"))

---------------------------------------------------------------------------
(* C13: rfc3339. *)

\* The last character of a text.
LastChar(x) == x[Len(x)]

\* C13: rfc3339() is strftime("%Y-%m-%dT%H:%M:%S") followed by "Z" when
\* tm_gmtoff is exactly 0, and otherwise by a sign, two-digit hours, a
\* colon and two-digit minutes computed from tm_gmtoff (-28800 gives
\* "-08:00"); the suffix is "Z" if and only if tm_gmtoff = 0.
C13_Rfc3339 ==
    r3339 # NoRendering =>
        LET o == t[1].tm_gmtoff
            stamp == strftime(Chars("%Y-%m-%dT%H:%M:%S"), t[1])
            suffix == IF o = 0 THEN <<"Z">>
                      ELSE <<SignOf(o)>> \o TwoDigits(Abs(o) \div 3600)
                           \o <<":">> \o TwoDigits((Abs(o) \div 60) % 60)
        IN  /\ stamp.kind = "ok"
            /\ r3339 = Text(stamp.str \o suffix)
            /\ LastChar(r3339.str) = "Z" <=> o = 0
            /\ t = <<local_tm>> =>
                  r3339 = Text(Chars("2009-02-13T15:31:30-08:00"))
            /\ t = <<utc_tm>> => r3339 = Text(Chars("2009-02-13T23:31:30Z"))

\* An offset of one second is not zero: the suffix is "+00:00", not "Z".
C13_Witness ==
    /\ r3339 # NoRendering
    /\ t[1].tm_gmtoff = 1
    /\ r3339 = Text(Chars("2009-02-13T15:31:30+00:00"))

---------------------------------------------------------------------------
(* C14: rfc822, rfc822z and ctime. *)

---------------------------------------------------------------------------
(* C15: blanks in numeric fields. *)

\* The two-digit specifiers read with and without blanks allowed.
PaddedLetters == {"e", "k", "l"}
UnpaddedLetters == {"C", "d", "H", "I", "M", "m", "S", "y"}

\* C15: in a space-padded numeric field (%e, %k, %l) a blank is accepted
\* only as leading padding, before any digit of the field: a blank that
\* follows a digit within the field ("3 " under %e) makes the parse fail;
\* the non-padded numeric specifiers reject a blank in any position.
C15_LeadingBlanksOnly ==
    /\ \A ch \in PaddedLetters :
          (/\ JustStepped(ch)
           /\ last[1].pos + 2 <= Len(s)
           /\ IsDigit(s[last[1].pos + 1])
           /\ s[last[1].pos + 2] = " ") => pc # "loop"
    /\ \A ch \in UnpaddedLetters :
          (/\ JustStepped(ch)
           /\ \E i \in 1..2 : /\ last[1].pos + i <= Len(s)
                               /\ s[last[1].pos + i] = " ") => pc # "loop"
    /\ (Given /\ Lone("e") /\ s = Chars("3 ")) => res.kind # "ok"

---------------------------------------------------------------------------
(* C16: the reason given for a literal mismatch. *)

\* The latest iteration compared a literal character of the format with
\* the input character at the cursor, and they differ.
SteppedMismatch ==
    /\ last # <<>>
    /\ read_char(format, last[1].rpos) # "%"
    /\ read_char(format, last[1].rpos) # s[last[1].pos + 1]

\* What parse_char gives for the literal c against the character ch.
Mismatch(c, ch) ==
    [kind |-> "err", tm |-> <<>>, msg |-> <<"Expected", c, "found", ch>>]

\* C16: when a literal character of the format differs from the input
\* character at the cursor, strptime fails with an error whose reason
\* names the expected literal and the character found, as a literal
\* mismatch inside a composite specifier does.
C16_LiteralMismatchReason ==
    SteppedMismatch =>
        LET expected == Mismatch(read_char(format, last[1].rpos),
                                 s[last[1].pos + 1])
        IN  /\ pc = "break" => result = expected
            /\ Returned => res = expected

---------------------------------------------------------------------------
(* C17: the reason given for a specifier that fails. *)

\* The specifiers that store one field from a number or a name.
FieldLetters == {"A", "a", "B", "b", "h", "C", "d", "e", "H", "I", "j", "k",
                 "l", "M", "m", "P", "p", "S", "u", "w", "Y", "y"}

\* The reason parse_type gives when specifier %ch refuses its input.
ReasonOf(ch) == strptime_parse_type(<<"x">>, 0, ch, empty_tm).msg

\* C17: when a specifier fails, strptime leaves the loop at that specifier
\* and returns that specifier's error, and the reason tells which field
\* failed: it differs from the reason of every specifier that sets
\* another field (year, weekday, year-day, month, day, hour, minute,
\* second).
C17_ReasonNamesField ==
    \A ch \in FieldLetters :
        (Stepped(ch) /\ pc \notin {"loop", "fail"}
                     /\ result.msg # <<"Invalid time">>) =>
            /\ result.kind = "err"
            /\ result.msg = ReasonOf(ch)
            /\ Returned => res = result
            /\ \A other \in FieldLetters :
                  Touches(other) # Touches(ch) => ReasonOf(other) # result.msg

---------------------------------------------------------------------------
(* C18: no range validation. *)

RECURSIVE Decimal(_)
\* The number a sequence of decimal digits writes.
Decimal(ds) ==
    IF ds = <<>> THEN 0
    ELSE 10 * Decimal(SubSeq(ds, 1, Len(ds) - 1)) + DigitVal(ds[Len(ds)])

\* The numeric specifiers that store the value read, as it is or with the
\* adjustment named for them.
NumericLetters == {"d", "e", "H", "I", "j", "k", "l", "M", "m", "S", "u",
                   "w", "Y"}

\* The number of characters specifier %ch reads.
WidthOf(ch) ==
    CASE ch \in {"u", "w"} -> 1
      [] ch = "j" -> 3
      [] ch = "Y" -> 4
      [] OTHER -> 2

\* The field specifier %ch stores.
FieldOf(ch) == CHOOSE f \in Touches(ch) : TRUE

\* The value stored for the number v: v itself, but v - 1 for %m and %j,
\* v - 1900 for %Y, and 0 in place of 12 for %I and %l.
StoredFor(ch, v) ==
    CASE ch \in {"m", "j"} -> v - 1
      [] ch = "Y" -> v - 1900
      [] ch \in {"I", "l"} -> IF v = 12 THEN 0 ELSE v
      [] OTHER -> v

---------------------------------------------------------------------------
(* C19: what every successful parse leaves at zero. *)

RECURSIVE FormatTouches(_, _)
\* The fields touched by the specifiers of fmt from reader offset i on.
FormatTouches(fmt, i) ==
    IF i >= Len(fmt) THEN {}
    ELSE IF fmt[i + 1] = "%"
         THEN Touches(read_char(fmt, i + 1)) \cup FormatTouches(fmt, i + 2)
         ELSE FormatTouches(fmt, i + 1)

\* The fields of tm that hold a number.
NumberFields == {"tm_sec", "tm_min", "tm_hour", "tm_mday", "tm_mon",
                 "tm_year", "tm_wday", "tm_yday", "tm_isdst", "tm_gmtoff",
                 "tm_nsec"}

=============================================================================
